---------------------------- MODULE Spec2Model ----------------------------
(***************************************************************************)
(* IfcPython/read_boundaries.py: display_boundaries reads the 2nd level    *)
(* IfcRelSpaceBoundary entities of an IFC file, creates one FreeCAD object *)
(* per boundary, pairs corresponding boundaries, and resolves coplanar and *)
(* hosted boundaries per space.                                            *)
(*                                                                         *)
(* Boundaries are numbered 1..nb in creation order (space by space), 0 is  *)
(* Python's None / an unbound local.  Elements and spaces are numbered.    *)
(***************************************************************************)
EXTENDS Integers, Sequences, FiniteSets

VARIABLES
    ifc,                    \* the opened IFC file (read only after Init)
    phase,                  \* the loop of display_boundaries being executed
    cursor,                 \* loop position: a boundary, or a space in "topology"
    exception,              \* the exception that left display_boundaries, or "none"
    printed,                \* boundaries for which create_fc_shape printed a failure
    host_element,           \* local variable host_element of display_boundaries
    ProvidesBoundaries,     \* Element.ProvidesBoundaries, per element
    CorrespondingBoundary,  \* per created boundary
    ParentBoundary,         \* per created boundary
    InnerBoundaries,        \* per created boundary, a list
    CoplanarWith,           \* per created boundary, a list
    Area,                   \* per created boundary
    AreaWithHosted          \* per created boundary

vars == <<ifc, phase, cursor, exception, printed, host_element,
          ProvidesBoundaries, CorrespondingBoundary, ParentBoundary,
          InnerBoundaries, CoplanarWith, Area, AreaWithHosted>>

(***************************************************************************)
(* Bounds of the checked inputs.                                           *)
(***************************************************************************)
\* boundaries in a model whose matcher inputs vary
MaxBoundaries == 3
\* boundaries in a model whose topology inputs vary (a space of 5 must fit)
MaxTopologyBoundaries == 6
\* boundaries in a model whose areas vary
MaxAreaBoundaries == 4
\* boundaries in a model whose geometry outcomes vary
MaxGeometryBoundaries == 4

Elements == 1 .. 2
Spaces == 1 .. 3
Planes == 1 .. 2
Areas == 1 .. 2
\* centroid coordinates along one axis, in mm: distances 0, 1, 10000, 10001
Positions == {0, 1, 10001}
IOE == {"INTERNAL", "EXTERNAL"}
\* which tier of create_fc_shape succeeds on a surface
Surfaces == {[brep |-> TRUE, wires |-> TRUE, mesh |-> TRUE],
             [brep |-> FALSE, wires |-> FALSE, mesh |-> TRUE],
             [brep |-> FALSE, wires |-> FALSE, mesh |-> FALSE]}
GoodSurface == [brep |-> TRUE, wires |-> TRUE, mesh |-> TRUE]

(***************************************************************************)
(* Program constants.                                                      *)
(***************************************************************************)
BREP == FALSE
min_lenght == 10000
MinBoundaries == 5

(***************************************************************************)
(* Sequence helpers.                                                       *)
(***************************************************************************)
Range(s) == {s[i] : i \in DOMAIN s}

Max(S) == CHOOSE x \in S : \A y \in S : y <= x

\* list.remove(x): drops the first occurrence of x
RECURSIVE remove(_, _)
remove(s, x) ==
    IF s = <<>> THEN <<>>
    ELSE IF Head(s) = x THEN Tail(s)
    ELSE <<Head(s)>> \o remove(Tail(s), x)

Abs(x) == IF x < 0 THEN -x ELSE x

(***************************************************************************)
(* The IFC file.  space is nondecreasing from 1 without gaps: boundaries   *)
(* are created space by space.  Element and plane labels are introduced in *)
(* order of first use (only their equality is read).                       *)
(***************************************************************************)
InOrder(f, n) ==
    /\ f[1] = 1
    /\ \A i \in 2 .. n : f[i] <= Max({f[j] : j \in 1 .. (i - 1)}) + 1

Contiguous(f, n) ==
    /\ f[1] = 1
    /\ \A i \in 2 .. n : f[i] \in {f[i - 1], f[i - 1] + 1}

Const(n, v) == [i \in 1 .. n |-> v]

Model(n, sp, el, io, po, pl, ar, su, fv) ==
    [nb |-> n, space |-> sp, elem |-> el, ioe |-> io, pos |-> po,
     plane |-> pl, area |-> ar, surface |-> su, fillsVoids |-> fv]

NoVoids == [e \in Elements |-> FALSE]
\* element 1 is a wall or slab, element 2 fills a void (door, window)
DoorIsTwo == [e \in Elements |-> e = 2]

\* the matcher's inputs vary: spaces, elements, INTERNAL/EXTERNAL, centroids
MatcherModel(m) ==
    \E n \in 1 .. MaxBoundaries :
      \E sp \in [1 .. n -> Spaces], el \in [1 .. n -> Elements],
         io \in [1 .. n -> IOE], po \in [1 .. n -> Positions] :
        /\ Contiguous(sp, n)
        /\ InOrder(el, n)
        /\ m = Model(n, sp, el, io, po, Const(n, 1), Const(n, 1),
                     Const(n, GoodSurface), NoVoids)

\* the topology inputs vary: space sizes, hosted or not, supporting planes
TopologyModel(m) ==
    \E n \in 1 .. MaxTopologyBoundaries :
      \E sp \in [1 .. n -> 1 .. 2], el \in [1 .. n -> Elements],
         pl \in [1 .. n -> Planes] :
        /\ Contiguous(sp, n)
        /\ InOrder(pl, n)
        /\ m = Model(n, sp, el, Const(n, "EXTERNAL"), Const(n, 0), pl, Const(n, 1),
                     Const(n, GoodSurface), DoorIsTwo)

\* the areas vary, with hosted or not and supporting planes
AreaModel(m) ==
    \E n \in 1 .. MaxAreaBoundaries :
      \E sp \in [1 .. n -> 1 .. 2], el \in [1 .. n -> Elements],
         pl \in [1 .. n -> Planes], ar \in [1 .. n -> Areas] :
        /\ Contiguous(sp, n)
        /\ InOrder(pl, n)
        /\ m = Model(n, sp, el, Const(n, "EXTERNAL"), Const(n, 0), pl, ar,
                     Const(n, GoodSurface), DoorIsTwo)

\* the outcome of each tier of the geometry construction varies
GeometryModel(m) ==
    \E n \in 1 .. MaxGeometryBoundaries :
      \E sp \in [1 .. n -> Spaces], su \in [1 .. n -> Surfaces] :
        /\ Contiguous(sp, n)
        /\ m = Model(n, sp, Const(n, 1), Const(n, "EXTERNAL"), Const(n, 0),
                     Const(n, 1), Const(n, 1), su, NoVoids)

(***************************************************************************)
(* Read-only properties of a created boundary.                             *)
(***************************************************************************)
Created == 1 .. Len(CorrespondingBoundary)
RelatingSpace(b) == ifc.space[b]
RelatedBuildingElement(b) == ifc.elem[b]
InternalOrExternalBoundary(b) == ifc.ioe[b]
IsHosted(b) == ifc.fillsVoids[ifc.elem[b]]
CenterOfMass(b) == ifc.pos[b]
NbSpaces == ifc.space[ifc.nb]

\* space_group.Group: the boundaries of a space, in creation order
RECURSIVE GroupFrom(_, _)
GroupFrom(s, b) ==
    IF b > ifc.nb THEN <<>>
    ELSE (IF ifc.space[b] = s THEN <<b>> ELSE <<>>) \o GroupFrom(s, b + 1)

Group(s) == GroupFrom(s, 1)

(***************************************************************************)
(* create_fc_shape: exact BREP when enabled, then wires, then mesh.        *)
(* The last tier's failure is not caught.                                  *)
(***************************************************************************)
create_fc_shape(surface) ==
    IF BREP /\ surface.brep THEN "brep"
    ELSE IF surface.wires THEN "wires"
    ELSE IF surface.mesh THEN "mesh"
    ELSE "RuntimeError"

\* the prints of create_fc_shape: a failed tier that was attempted
Reports(surface) == (BREP /\ ~surface.brep) \/ ~surface.wires

(***************************************************************************)
(* The order of the loops of display_boundaries: creation (lines 59-76),   *)
(* the matcher (lines 79-81), the topology pass (lines 84-117), then       *)
(* doc.recompute (line 139).                                               *)
(***************************************************************************)
TopologyFirst(loop) ==
    CASE loop = "create" -> "topology"
      [] loop = "topology" -> "match"
      [] loop = "match" -> "recompute"

\* the loop that display_boundaries enters when it leaves the given loop
Following(loop) ==
    CASE loop = "create" -> "match"
      [] loop = "match" -> "topology"
      [] loop = "topology" -> "recompute"

(***************************************************************************)
(* display_boundaries, lines 59-76: one boundary is created.               *)
(***************************************************************************)
CreateBoundary ==
    /\ phase = "create"
    /\ exception = "none"
    /\ LET b == cursor
           shape == create_fc_shape(ifc.surface[b])
           e == ifc.elem[b]
       IN  /\ printed' = IF Reports(ifc.surface[b]) THEN printed \cup {b} ELSE printed
           /\ IF shape = "RuntimeError"
              THEN /\ exception' = "RuntimeError"
                   /\ UNCHANGED <<phase, cursor, ProvidesBoundaries,
                                  CorrespondingBoundary, ParentBoundary,
                                  InnerBoundaries, CoplanarWith, Area, AreaWithHosted>>
              ELSE /\ CorrespondingBoundary' = Append(CorrespondingBoundary, 0)
                   /\ ParentBoundary' = Append(ParentBoundary, 0)
                   /\ InnerBoundaries' = Append(InnerBoundaries, <<>>)
                   /\ CoplanarWith' = Append(CoplanarWith, <<>>)
                   /\ Area' = Append(Area, ifc.area[b])
                   /\ AreaWithHosted' = Append(AreaWithHosted, ifc.area[b])
                   /\ ProvidesBoundaries' =
                          [ProvidesBoundaries EXCEPT ![e] = Append(@, b)]
                   /\ IF b = ifc.nb
                      THEN phase' = Following("create") /\ cursor' = 1
                      ELSE phase' = "create" /\ cursor' = b + 1
                   /\ UNCHANGED exception
    /\ UNCHANGED <<ifc, host_element>>

(***************************************************************************)
(* clean_corresponding_candidates and associate_corresponding_boundary.    *)
(***************************************************************************)
Keeps(b, fc_boundary) ==
    \/ CorrespondingBoundary[b] = 0
    \/ RelatingSpace(b) # RelatingSpace(fc_boundary)

clean_corresponding_candidates(fc_boundary) ==
    LET other_boundaries ==
            remove(ProvidesBoundaries[RelatedBuildingElement(fc_boundary)], fc_boundary)
        Test(b) == Keeps(b, fc_boundary)
    IN  SelectSeq(other_boundaries, Test)

distanceToPoint(p, q) == Abs(p - q)

\* the loop of lines 185-189; 0 when corresponding_boundary was never bound
RECURSIVE Closest(_, _, _, _)
Closest(fc_boundary, others, min, best) ==
    IF others = <<>> THEN best
    ELSE LET boundary == Head(others)
             distance == distanceToPoint(CenterOfMass(fc_boundary), CenterOfMass(boundary))
         IN  IF distance < min
             THEN Closest(fc_boundary, Tail(others), distance, boundary)
             ELSE Closest(fc_boundary, Tail(others), min, best)

Selected(fc_boundary) ==
    LET other_boundaries == clean_corresponding_candidates(fc_boundary)
    IN  IF Len(other_boundaries) = 1 THEN other_boundaries[1]
        ELSE Closest(fc_boundary, other_boundaries, min_lenght, 0)

SkipsOnlyNotInternal(fc_boundary) ==
    InternalOrExternalBoundary(fc_boundary) # "INTERNAL"

\* the early return of lines 173-177
Skips(fc_boundary) ==
    \/ InternalOrExternalBoundary(fc_boundary) # "INTERNAL"
    \/ CorrespondingBoundary[fc_boundary] # 0

\* the effect of one call on CorrespondingBoundary and on exception
associate_corresponding_boundary(fc_boundary) ==
    IF Skips(fc_boundary)
    THEN UNCHANGED <<CorrespondingBoundary, exception>>
    ELSE LET corresponding_boundary == Selected(fc_boundary)
         IN  IF corresponding_boundary = 0
             THEN /\ exception' = "UnboundLocalError"
                  /\ UNCHANGED CorrespondingBoundary
             ELSE /\ CorrespondingBoundary' =
                        [CorrespondingBoundary EXCEPT
                            ![fc_boundary] = corresponding_boundary,
                            ![corresponding_boundary] = fc_boundary]
                  /\ UNCHANGED exception

\* display_boundaries, lines 79-81: the matcher is called on one boundary
AssociateCorresponding ==
    /\ phase = "match"
    /\ exception = "none"
    /\ associate_corresponding_boundary(cursor)
    /\ IF exception' # "none" THEN UNCHANGED <<phase, cursor>>
       ELSE IF cursor = ifc.nb
       THEN phase' = Following("match") /\ cursor' = 1
       ELSE phase' = "match" /\ cursor' = cursor + 1
    /\ UNCHANGED <<ifc, printed, host_element, ProvidesBoundaries, ParentBoundary,
                   InnerBoundaries, CoplanarWith, Area, AreaWithHosted>>

(***************************************************************************)
(* The topology pass of display_boundaries, lines 84-117, for one space.   *)
(***************************************************************************)
\* Part.Plane(point, normal) of both boundaries coincide
is_coplanar(shape_1, shape_2) == ifc.plane[shape_1] = ifc.plane[shape_2]

\* append(doc_object, fc_property, value) on the list read from the property
append(current_value, value) == Append(current_value, value)

\* itertools.combinations(fc_boundaries, 2), from the pair of positions (i, j)
RECURSIVE combinations(_, _, _)
combinations(fc_boundaries, i, j) ==
    IF i >= Len(fc_boundaries) THEN <<>>
    ELSE IF j > Len(fc_boundaries) THEN combinations(fc_boundaries, i + 1, i + 2)
    ELSE <<<<fc_boundaries[i], fc_boundaries[j]>>>> \o combinations(fc_boundaries, i, j + 1)

RegisterFirstOnly(cw, fc_boundary_1, fc_boundary_2) ==
    IF is_coplanar(fc_boundary_1, fc_boundary_2)
    THEN [cw EXCEPT ![fc_boundary_1] = append(@, fc_boundary_2)]
    ELSE cw

\* lines 95-97 on the CoplanarWith lists cw
RegisterCoplanar(cw, fc_boundary_1, fc_boundary_2) ==
    IF is_coplanar(fc_boundary_1, fc_boundary_2)
    THEN [cw EXCEPT ![fc_boundary_1] = append(@, fc_boundary_2),
                    ![fc_boundary_2] = append(@, fc_boundary_1)]
    ELSE cw

\* the loop of lines 94-97
RECURSIVE FindCoplanar(_, _)
FindCoplanar(cw, pairs) ==
    IF pairs = <<>> THEN cw
    ELSE FindCoplanar(RegisterCoplanar(cw, Head(pairs)[1], Head(pairs)[2]), Tail(pairs))

RECURSIVE SumAreas(_)
SumAreas(boundaries) ==
    IF boundaries = <<>> THEN 0
    ELSE Area[Head(boundaries)] + SumAreas(Tail(boundaries))

AreaAlone(obj, inner) == Area[obj]

\* RelSpaceBoundary.recompute_area_with_hosted, reading the lists inner
recompute_area_with_hosted(obj, inner) == Area[obj] + SumAreas(inner[obj])

\* one iteration of the loop of lines 100-107 on the loop's state h;
\* an unbound host_element at line 106 raises and leaves the loop
AssociateHosted(h, fc_boundary, cw) ==
    IF h.exc # "none" \/ ~IsHosted(fc_boundary) THEN h
    ELSE LET one == Len(cw[fc_boundary]) = 1
             host == IF one THEN cw[fc_boundary][1] ELSE h.host
             parent == IF one THEN [h.parent EXCEPT ![fc_boundary] = host] ELSE h.parent
         IN  IF host = 0
             THEN [h EXCEPT !.exc = "UnboundLocalError"]
             ELSE LET inner == [h.inner EXCEPT ![host] = append(@, fc_boundary)]
                  IN  [host |-> host, parent |-> parent, inner |-> inner,
                       awh |-> [h.awh EXCEPT
                                  ![host] = recompute_area_with_hosted(host, inner)],
                       exc |-> "none"]

\* the loop of lines 100-117
RECURSIVE HostedLoop(_, _, _)
HostedLoop(h, fc_boundaries, cw) ==
    IF fc_boundaries = <<>> THEN h
    ELSE HostedLoop(AssociateHosted(h, Head(fc_boundaries), cw), Tail(fc_boundaries), cw)

\* line 91, "assert ValueError, message": the asserted value is the class
\* ValueError, which is true
AssertedValue == TRUE

TopologySpace ==
    /\ phase = "topology"
    /\ exception = "none"
    /\ LET fc_boundaries == Group(cursor)
           cw == FindCoplanar(CoplanarWith, combinations(fc_boundaries, 1, 2))
           h == HostedLoop([host |-> host_element, parent |-> ParentBoundary,
                            inner |-> InnerBoundaries, awh |-> AreaWithHosted,
                            exc |-> "none"], fc_boundaries, cw)
       IN  IF Len(fc_boundaries) = MinBoundaries
           THEN UNCHANGED <<exception, host_element, CoplanarWith, ParentBoundary,
                            InnerBoundaries, AreaWithHosted>>
           ELSE IF Len(fc_boundaries) < MinBoundaries /\ ~AssertedValue
           THEN /\ exception' = "AssertionError"
                /\ UNCHANGED <<host_element, CoplanarWith, ParentBoundary,
                               InnerBoundaries, AreaWithHosted>>
           ELSE /\ CoplanarWith' = cw
                /\ host_element' = h.host
                /\ ParentBoundary' = h.parent
                /\ InnerBoundaries' = h.inner
                /\ AreaWithHosted' = h.awh
                /\ exception' = h.exc
    /\ IF exception' # "none" THEN UNCHANGED <<phase, cursor>>
       ELSE IF cursor = NbSpaces
       THEN phase' = Following("topology") /\ cursor' = 1
       ELSE phase' = "topology" /\ cursor' = cursor + 1
    /\ UNCHANGED <<ifc, printed, ProvidesBoundaries, CorrespondingBoundary, Area>>

\* line 139: display_boundaries returns
Recompute ==
    /\ phase = "recompute"
    /\ exception = "none"
    /\ phase' = "done"
    /\ cursor' = 1
    /\ UNCHANGED <<ifc, exception, printed, host_element, ProvidesBoundaries,
                   CorrespondingBoundary, ParentBoundary, InnerBoundaries,
                   CoplanarWith, Area, AreaWithHosted>>

\* the matcher loop of lines 79-81 run a second time over the finished model
AssociateAgain ==
    /\ phase = "done"
    /\ exception = "none"
    /\ cursor <= ifc.nb
    /\ associate_corresponding_boundary(cursor)
    /\ cursor' = IF exception' # "none" THEN cursor ELSE cursor + 1
    /\ UNCHANGED <<ifc, phase, printed, host_element, ProvidesBoundaries,
                   ParentBoundary, InnerBoundaries, CoplanarWith, Area, AreaWithHosted>>

(***************************************************************************)
(* Specifications: display_boundaries on each family of IFC files.         *)
(***************************************************************************)
Start ==
    /\ phase = "create"
    /\ cursor = 1
    /\ exception = "none"
    /\ printed = {}
    /\ host_element = 0
    /\ ProvidesBoundaries = [e \in Elements |-> <<>>]
    /\ CorrespondingBoundary = <<>>
    /\ ParentBoundary = <<>>
    /\ InnerBoundaries = <<>>
    /\ CoplanarWith = <<>>
    /\ Area = <<>>
    /\ AreaWithHosted = <<>>

Init == MatcherModel(ifc) /\ Start
InitTopology == TopologyModel(ifc) /\ Start
InitArea == AreaModel(ifc) /\ Start
InitGeometry == GeometryModel(ifc) /\ Start

Next ==
    \/ CreateBoundary
    \/ AssociateCorresponding
    \/ TopologySpace
    \/ Recompute
    \/ AssociateAgain

Spec == Init /\ [][Next]_vars
SpecTopology == InitTopology /\ [][Next]_vars
SpecArea == InitArea /\ [][Next]_vars
SpecGeometry == InitGeometry /\ [][Next]_vars

(***************************************************************************)
(* Corresponding Boundary Matcher (checked under Spec).                    *)
(***************************************************************************)
\* the matcher loop, first or second run, is at a boundary it does not skip
Matching(x) ==
    /\ phase \in {"match", "done"}
    /\ exception = "none"
    /\ x = cursor
    /\ x \in Created
    /\ ~Skips(x)

\* C1: CorrespondingBoundary is symmetric after every completed matcher call:
\* if A.CorrespondingBoundary = B then B.CorrespondingBoundary = A.
C1_Symmetric ==
    \A a \in Created :
        CorrespondingBoundary[a] # 0 =>
            CorrespondingBoundary[CorrespondingBoundary[a]] = a

\* C2: whenever the matcher links X to Y, Y is another boundary of X's element,
\* Y is in a different space than X, and Y had no CorrespondingBoundary when it
\* was selected; the candidates of X are exactly the other boundaries of X's
\* element that are unpaired and in a different space.
C2_LinksOnlyFreeCandidate ==
    [][\A x \in Created :
          Matching(x) =>
            /\ Range(clean_corresponding_candidates(x)) =
                 {b \in Created \ {x} :
                     /\ RelatedBuildingElement(b) = RelatedBuildingElement(x)
                     /\ CorrespondingBoundary[b] = 0
                     /\ RelatingSpace(b) # RelatingSpace(x)}
            /\ CorrespondingBoundary'[x] # 0 =>
                 LET y == CorrespondingBoundary'[x]
                 IN  /\ y # x
                     /\ RelatedBuildingElement(y) = RelatedBuildingElement(x)
                     /\ RelatingSpace(y) # RelatingSpace(x)
                     /\ CorrespondingBoundary[y] = 0]_vars

\* C3: every boundary whose CorrespondingBoundary is set is INTERNAL, the
\* boundary the matcher was called on and its counterpart alike.
C3_OnlyInternalLinked ==
    \A b \in Created :
        CorrespondingBoundary[b] # 0 => InternalOrExternalBoundary(b) = "INTERNAL"

\* C9: a second matcher run over a model on which display_boundaries has
\* completed changes no CorrespondingBoundary: every call returns without
\* mutating a boundary (and without raising).
C9_SecondRunChangesNothing ==
    [][phase = "done" =>
          /\ CorrespondingBoundary' = CorrespondingBoundary
          /\ exception' = "none"]_vars

\* the second run has called the matcher on every boundary of a model that
\* holds a pair linked by the first run
C9_Witness ==
    /\ phase = "done"
    /\ cursor = ifc.nb + 1
    /\ \E a, b \in Created :
          /\ a # b
          /\ CorrespondingBoundary[a] = b
          /\ CorrespondingBoundary[b] = a

(***************************************************************************)
(* Topology pass (checked under SpecTopology).                             *)
(***************************************************************************)
\* the topology loop has gone through space s and moved on
TopologyRan(s) ==
    \/ phase = "topology" /\ s < cursor
    \/ phase \in {"recompute", "done"}

\* the topology loop has reached space s
TopologyReached(s) ==
    \/ TopologyRan(s)
    \/ phase = "topology" /\ s = cursor /\ exception # "none"

SpaceIds == 1 .. NbSpaces
Members(s) == Range(Group(s))
Occurrences(list, x) == Cardinality({i \in DOMAIN list : list[i] = x})
CoplanarPeers(b) == {o \in Members(RelatingSpace(b)) \ {b} : is_coplanar(b, o)}

Registered(a, b) ==
    /\ b \in Range(CoplanarWith[a])
    /\ a \in Range(CoplanarWith[b])

\* C4 as claimed: after the topology pass over a space, every two distinct
\* coplanar boundaries of the space are in each other's CoplanarWith, whatever
\* the number of boundaries of the space.
C4_CoplanarRegistered ==
    \A s \in SpaceIds :
        TopologyRan(s) =>
            \A a, b \in Members(s) : (a # b /\ is_coplanar(a, b)) => Registered(a, b)

\* C4 as amended: the same for every space whose number of boundaries is not 5;
\* a space of exactly 5 boundaries is skipped and its CoplanarWith lists stay
\* empty.
C4_CoplanarRegisteredUnlessFive ==
    \A s \in SpaceIds :
        TopologyRan(s) =>
            IF Len(Group(s)) # MinBoundaries
            THEN \A a, b \in Members(s) :
                    (a # b /\ is_coplanar(a, b)) => Registered(a, b)
            ELSE \A a \in Members(s) : CoplanarWith[a] = <<>>

\* the pass has run over a space of more than 5 boundaries that holds a
\* coplanar pair and a pair that is not coplanar
C4_Witness ==
    \E s \in SpaceIds :
        /\ TopologyRan(s)
        /\ Len(Group(s)) > MinBoundaries
        /\ \E a, b \in Members(s) : a # b /\ is_coplanar(a, b) /\ Registered(a, b)
        /\ \E a, b \in Members(s) : ~is_coplanar(a, b) /\ ~Registered(a, b)

\* C5: a hosted boundary H with exactly one coplanar boundary W in its space
\* has, after the topology pass over the space, ParentBoundary W; W's
\* InnerBoundaries holds H exactly once and holds no boundary whose
\* ParentBoundary is not W.
C5_HostedResolved ==
    \A s \in SpaceIds :
        TopologyRan(s) =>
            \A H \in Members(s) :
                (IsHosted(H) /\ Cardinality(CoplanarPeers(H)) = 1) =>
                    LET W == CHOOSE w \in CoplanarPeers(H) : TRUE
                    IN  /\ ParentBoundary[H] = W
                        /\ Occurrences(InnerBoundaries[W], H) = 1
                        /\ \A x \in Range(InnerBoundaries[W]) : ParentBoundary[x] = W

\* C6: a hosted boundary whose CoplanarWith does not have exactly one entry is
\* left unresolved: no ParentBoundary, in no InnerBoundaries, and the pass goes
\* on instead of aborting; so H is in P.InnerBoundaries only if
\* H.ParentBoundary = P.
C6_AmbiguousLeftUnresolved ==
    /\ \A s \in SpaceIds :
          TopologyReached(s) =>
              \A H \in Members(s) :
                  (IsHosted(H) /\ Len(CoplanarWith[H]) # 1) =>
                      /\ ParentBoundary[H] = 0
                      /\ \A P \in Created : H \notin Range(InnerBoundaries[P])
    /\ ~(phase = "topology" /\ exception = "UnboundLocalError")
    /\ \A P \in Created :
          \A H \in Range(InnerBoundaries[P]) : ParentBoundary[H] = P

\* C8: a space of fewer than 5 boundaries is reported when the topology pass
\* reaches it: an error is raised for it; a space of 5 or more raises none.
C8_FewBoundariesReported ==
    \A s \in SpaceIds :
        TopologyReached(s) =>
            /\ Len(Group(s)) < MinBoundaries =>
                  (s = cursor /\ exception = "AssertionError")
            /\ (Len(Group(s)) >= MinBoundaries /\ s = cursor) =>
                  exception # "AssertionError"

(***************************************************************************)
(* Area Aggregator (checked under SpecArea).                               *)
(***************************************************************************)
\* C7: every created boundary B has AreaWithHosted(B) = Area(B) + the sum of
\* Area(h) over the entries h of B.InnerBoundaries, after creation and after
\* every append to InnerBoundaries.
C7_AreaWithHosted ==
    \A B \in Created :
        AreaWithHosted[B] = Area[B] + SumAreas(InnerBoundaries[B])

\* a boundary has received two inner boundaries and another still has none
C7_Witness ==
    /\ \E B \in Created :
          /\ Len(InnerBoundaries[B]) = 2
          /\ AreaWithHosted[B] > Area[B] + Area[InnerBoundaries[B][1]]
    /\ \E B \in Created :
          InnerBoundaries[B] = <<>> /\ AreaWithHosted[B] = Area[B]

(***************************************************************************)
(* Geometry Builder (checked under SpecGeometry).                          *)
(***************************************************************************)
\* display_boundaries has called make_relspaceboundary for boundary b
Attempted(b) ==
    \/ phase # "create"
    \/ b < cursor
    \/ b = cursor /\ exception # "none"

\* C10: when create_fc_shape fails for a boundary in every tier it attempts,
\* the failure is reported and confined to that boundary: display_boundaries
\* is not left, and goes on to create and process the other boundaries.
C10_FailureConfined ==
    \A b \in 1 .. ifc.nb :
        (Attempted(b) /\ create_fc_shape(ifc.surface[b]) = "RuntimeError") =>
            /\ b \in printed
            /\ exception = "none"

(***************************************************************************)
(* Order of the passes (checked under SpecTopology).                       *)
(***************************************************************************)
\* display_boundaries has called associate_corresponding_boundary
MatcherCalled ==
    \/ phase = "match" /\ (cursor > 1 \/ exception # "none")
    \/ phase \in {"topology", "recompute", "done"}

\* the topology pass has written nothing yet
TopologyUntouched ==
    \A b \in Created :
        /\ CoplanarWith[b] = <<>>
        /\ ParentBoundary[b] = 0
        /\ InnerBoundaries[b] = <<>>

\* C11 as claimed: the topology pass has completed for every space before
\* associate_corresponding_boundary is called on any boundary.
C11_TopologyBeforeMatcher ==
    MatcherCalled => \A s \in SpaceIds : TopologyRan(s)

\* C11 as amended: every boundary of every space is created before the
\* matcher is called on any boundary, and the matcher loop has been through
\* every boundary before the topology pass writes CoplanarWith,
\* ParentBoundary or InnerBoundaries: while the creation or matcher loop runs
\* these are untouched.
C11_MatcherBeforeTopology ==
    /\ phase # "create" => Len(CorrespondingBoundary) = ifc.nb
    /\ phase \in {"create", "match"} => TopologyUntouched
    /\ ~TopologyUntouched => MatcherCalled /\ phase # "match"

\* the matcher loop has ended and the topology pass has then written a
\* CoplanarWith, a ParentBoundary and an InnerBoundaries
C11_Witness ==
    /\ MatcherCalled
    /\ phase \in {"topology", "recompute"}
    /\ \E b \in Created : CoplanarWith[b] # <<>>
    /\ \E b \in Created : ParentBoundary[b] # 0
    /\ \E b \in Created : InnerBoundaries[b] # <<>>

(***************************************************************************)
(* Nearest candidate (checked under Spec).                                 *)
(***************************************************************************)
\* C12: a matcher call with two or more candidates always selects one of
\* them, and the selected candidate's centroid distance to the boundary is
\* minimal among the candidates, whatever the distances (10000 or more
\* included).
C12_NearestCandidateSelected ==
    [][\A x \in Created :
          (Matching(x) /\ Len(clean_corresponding_candidates(x)) >= 2) =>
              LET candidates == Range(clean_corresponding_candidates(x))
                  y == CorrespondingBoundary'[x]
                  d(b) == distanceToPoint(CenterOfMass(x), CenterOfMass(b))
              IN  /\ y \in candidates
                  /\ \A c \in candidates : d(y) <= d(c)]_vars

=============================================================================
